---------------------------- MODULE Spec2Model ----------------------------
(***************************************************************************)
(* Model of the Monte-Carlo replication engine of Lab_HPC:                 *)
(*   SimModel/SimClasses.py       OneSim, ParallelMultiSim,                *)
(*                                simulate_this_model                      *)
(*   SimModel/RunSimSequential.py the sequential driver                    *)
(*   SimModel/RunSimParallel.py   the parallel driver                      *)
(*   PyUsingSimPy/SimClasses2.py  OneSim (second variant), MultiSim        *)
(*                                                                         *)
(* Objects live in a heap (obj), random generators in a second heap (rng): *)
(* a OneSim object holds a reference to its generator, so that sharing a   *)
(* generator between objects is expressible.  Variates are fixed-point     *)
(* numbers in quarter units.                                               *)
(***************************************************************************)
EXTENDS Integers, Sequences, FiniteSets, TLC

VARIABLES
    cfg,      \* the inputs of a run: N (N_RUNS), n (N_STEPS), P (mp.cpu_count())
    obj,      \* heap of OneSim objects: identity -> [seed, sum, rng, obs]
    rng,      \* heap of random generators: identity -> stream state
    files,    \* the file system seen by IO.write_csv: path -> rows
    faults,   \* the number of writes the file system has refused so far
    seq,      \* RunSimSequential.py: the driver's frame
    par,      \* RunSimParallel.py: the driver's frame and its ParallelMultiSim
    pool,     \* the mp.Pool of ParallelMultiSim.simulate: task queue and MapResult
    worker,   \* the pool's worker processes: w -> frame
    unit,     \* a client calling the methods of single OneSim objects
    multi     \* a client of SimClasses2.MultiSim: the object and the call's frame

vars == <<cfg, obj, rng, files, faults, seq, par, pool, worker, unit, multi>>

----------------------------------------------------------------------------
(* Bounds of the model *)

MaxRuns == 5

\* the replications of a run whose pool has more than one worker, and of a
\* call of MultiSim.simulate
MaxPoolRuns == 3

MaxSteps == 2

MaxProcs == 2

MaxFaults == 1

\* the seeds and the simulate calls of a single object
MaxSeed == 1

MaxCalls == 2

----------------------------------------------------------------------------
(* Small helpers *)

Put(f, k, v) == [x \in (DOMAIN f) \cup {k} |-> IF x = k THEN v ELSE f[x]]

Empty == [x \in {} |-> 0]

Range(n) == 0 .. (n - 1)

None == [none |-> TRUE]

RECURSIVE SeqSum(_)
SeqSum(xs) == IF xs = <<>> THEN 0 ELSE Head(xs) + SeqSum(Tail(xs))

----------------------------------------------------------------------------
(* StochasticSource: RVGs.RNG and RVGs.Beta *)

RngSeeded(seed) == seed % 16

RngAdvance(st) == (5 * st + 3) % 16

UniformOf(st) == st \div 4

BetaOf(st) == st % 4

----------------------------------------------------------------------------
(* ResultSink: IO.write_csv *)

Digit == <<"0", "1", "2", "3", "4", "5", "6", "7", "8", "9">>

RECURSIVE Str(_)
Str(k) == IF k < 10 THEN Digit[k + 1] ELSE Str(k \div 10) \o Digit[(k % 10) + 1]

PathOf(directory, file_name) == directory \o "/" \o file_name

Write_csv(fs, rows, file_name, directory) ==
    Put(fs, PathOf(directory, file_name), rows)

----------------------------------------------------------------------------
(* SimModel.SimClasses.OneSim *)

\* mutant: one generator per address space, shared by all its OneSim objects
NewRNG_Shared(self) == <<self[1], 0>>

\* self.rng = RVGs.RNG(seed=seed): a generator of its own for every object
NewRNG(self) == self

OneSim_init(self, seed) ==
    [seed |-> seed, sum |-> 0, rng |-> NewRNG(self)]

SimulateBegin(m) == [m EXCEPT !.sum = 0]

\* mutant: the loop runs once more than n_steps
LoopContinues_OffByOne(i, n_steps) == i <= n_steps

\* for i in range(n_steps)
LoopContinues(i, n_steps) == i < n_steps

\* mutant: the loop adds the uniform variate only
AddVariates_UniformOnly(m, u, b) == [m EXCEPT !.sum = m.sum + u]

AddVariates(m, u, b) == [m EXCEPT !.sum = m.sum + u + b]

ExportRows(m) == << <<m.seed, m.sum>> >>

\* mutant: every replication exports to the same file
ExportName_OneFile(m) == "Seed.csv"

\* mutant: the file is named after the seed alone, as in SimClasses2
ExportName_NoPrefix(m) == Str(m.seed) \o ".csv"

\* name = 'Seed ' + str(self.seed) + ".csv"
ExportName(m) == "Seed " \o Str(m.seed) \o ".csv"

----------------------------------------------------------------------------
(* RunSimSequential.py *)

SeqId(seed) == <<"seq", seed>>

\* mutant: the loop steps over every second seed
NextSeed_Skip(seed) == seed + 2

\* for seed in range(N_RUNS)
NextSeed(seed) == seed + 1

SeqInit == seq = [pc |-> "for", seed |-> 0, model |-> None, i |-> 0, u |-> 0]

SeqConstruct ==
    /\ seq.pc = "for"
    /\ seq.seed \in Range(cfg.N)
    /\ obj' = Put(obj, SeqId(seq.seed), OneSim_init(SeqId(seq.seed), seq.seed))
    /\ rng' = Put(rng, obj'[SeqId(seq.seed)].rng, RngSeeded(seq.seed))
    /\ seq' = [seq EXCEPT !.pc = "simulate", !.model = SeqId(seq.seed)]
    /\ UNCHANGED <<cfg, faults, files, par, pool, worker, unit, multi>>

SeqSimulateBegin ==
    /\ seq.pc = "simulate"
    /\ obj' = [obj EXCEPT ![seq.model] = SimulateBegin(@)]
    /\ seq' = [seq EXCEPT !.pc = "range", !.i = 0]
    /\ UNCHANGED <<cfg, faults, rng, files, par, pool, worker, unit, multi>>

SeqDrawUniform ==
    /\ seq.pc = "range"
    /\ LoopContinues(seq.i, cfg.n)
    /\ rng' = [rng EXCEPT ![obj[seq.model].rng] = RngAdvance(@)]
    /\ seq' = [seq EXCEPT !.pc = "beta", !.u = UniformOf(rng'[obj[seq.model].rng])]
    /\ UNCHANGED <<cfg, faults, obj, files, par, pool, worker, unit, multi>>

SeqDrawBeta ==
    /\ seq.pc = "beta"
    /\ rng' = [rng EXCEPT ![obj[seq.model].rng] = RngAdvance(@)]
    /\ obj' = [obj EXCEPT ![seq.model] =
                  AddVariates(@, seq.u, BetaOf(rng'[obj[seq.model].rng]))]
    /\ seq' = [seq EXCEPT !.pc = "range", !.i = seq.i + 1]
    /\ UNCHANGED <<cfg, faults, files, par, pool, worker, unit, multi>>

SeqSimulateEnd ==
    /\ seq.pc = "range"
    /\ ~LoopContinues(seq.i, cfg.n)
    /\ seq' = [seq EXCEPT !.pc = "export"]
    /\ UNCHANGED <<cfg, faults, obj, rng, files, par, pool, worker, unit, multi>>

SeqExport ==
    /\ seq.pc = "export"
    /\ files' = Write_csv(files, ExportRows(obj[seq.model]),
                          ExportName(obj[seq.model]), "ResultsSequential")
    /\ seq' = [seq EXCEPT !.pc = "for", !.seed = NextSeed(seq.seed)]
    /\ UNCHANGED <<cfg, faults, obj, rng, par, pool, worker, unit, multi>>

\* mutant: the loop swallows the error and goes on with the next seed
SeqExportFails_Swallowed ==
    /\ seq.pc = "export"
    /\ faults < MaxFaults
    /\ faults' = faults + 1
    /\ seq' = [seq EXCEPT !.pc = "for", !.seed = NextSeed(seq.seed)]
    /\ UNCHANGED <<cfg, obj, rng, files, par, pool, worker, unit, multi>>

\* model.export_results raises: the error leaves the loop and ends the program
SeqExportFails ==
    /\ seq.pc = "export"
    /\ faults < MaxFaults
    /\ faults' = faults + 1
    /\ seq' = [seq EXCEPT !.pc = "raised"]
    /\ UNCHANGED <<cfg, obj, rng, files, par, pool, worker, unit, multi>>

SeqDone ==
    /\ seq.pc = "for"
    /\ seq.seed \notin Range(cfg.N)
    /\ seq' = [seq EXCEPT !.pc = "done"]
    /\ UNCHANGED <<cfg, faults, obj, rng, files, par, pool, worker, unit, multi>>

----------------------------------------------------------------------------
(* SimModel.SimClasses.ParallelMultiSim and RunSimParallel.py *)

DrvId(seed) == <<"drv", seed>>

Min(a, b) == IF a < b THEN a ELSE b

\* the seed the generator `key' was last seeded with by the constructor's loop
LastSeeding(key, num_simulations) ==
    CHOOSE k \in Range(num_simulations) :
        /\ NewRNG(DrvId(k)) = key
        /\ \A j \in Range(num_simulations) : NewRNG(DrvId(j)) = key => j <= k

ParallelMultiSim_models(num_simulations) ==
    [k \in 1 .. Cardinality(Range(num_simulations)) |-> DrvId(k - 1)]

\* mutant: the generator's state is not pickled, the copy starts from seed 0
Pickle_Unseeded(m) == [id |-> m, fields |-> obj[m], state |-> RngSeeded(0)]

\* pickling copies an object by value, together with the generator it refers to
Pickle(m) == [id |-> m, fields |-> obj[m], state |-> rng[obj[m].rng]]

Args(models, n_steps) ==
    [k \in 1 .. Len(models) |-> [model |-> Pickle(models[k]), n_steps |-> n_steps]]

\* Pool._map_async with chunksize = None
ChunkSize(len, procs) ==
    IF len = 0 THEN 0
    ELSE (len \div (procs * 4)) + (IF len % (procs * 4) # 0 THEN 1 ELSE 0)

NumberLeft(len, chunksize) ==
    IF chunksize <= 0 THEN 0
    ELSE (len \div chunksize) + (IF len % chunksize # 0 THEN 1 ELSE 0)

GetTasks(args, chunksize) ==
    [c \in 1 .. NumberLeft(Len(args), chunksize) |->
        SubSeq(args, (c - 1) * chunksize + 1, Min(c * chunksize, Len(args)))]

\* mutant: the worker is handed the driver's object itself, not a copy
WkId_Alias(id) == id

\* unpickling in a worker: the copy of driver object <<"drv", k>> and the copy
\* of its generator; references shared inside one pickled chunk stay shared
WkId(id) == <<"wk", id[2]>>

WkRng(c, key) == <<"wk", c, key[2]>>

Unpickled(c, task) == [task.model.fields EXCEPT !.rng = WkRng(c, @)]

IdleFrame ==
    [pc |-> "idle", chunk |-> 0, pos |-> 0, self |-> None, n_steps |-> 0,
     i |-> 0, u |-> 0, out |-> <<>>, ok |-> TRUE, exc |-> None]

ParInit ==
    /\ par = [pc |-> "main", models |-> <<>>, error |-> None, calls |-> 0, rows |-> <<>>]
    /\ pool = [state |-> "none", chunks |-> <<>>, next |-> 1, chunksize |-> 0,
               left |-> 0, success |-> TRUE, value |-> <<>>,
               failed |-> {}, simulated |-> <<>>, exported |-> <<>>]
    /\ worker = <<>>

\* parallelModel = PP.ParallelMultiSim(num_simulations=N_RUNS)
ParConstruct ==
    /\ par.pc = "main"
    /\ seq.pc \in {"done", "raised", "off"}
    /\ LET ids == {DrvId(k) : k \in Range(cfg.N)}
           keys == {NewRNG(id) : id \in ids}
       IN /\ obj' = [x \in (DOMAIN obj) \cup ids |->
                        IF x \in ids THEN OneSim_init(x, x[2]) ELSE obj[x]]
          /\ rng' = [x \in (DOMAIN rng) \cup keys |->
                        IF x \in keys THEN RngSeeded(LastSeeding(x, cfg.N)) ELSE rng[x]]
    /\ par' = [par EXCEPT !.pc = "constructed",
                          !.models = ParallelMultiSim_models(cfg.N)]
    /\ UNCHANGED <<cfg, faults, files, seq, pool, worker, unit, multi>>

\* with mp.Pool(max_processes) as pl: pl.starmap(simulate_this_model, args).
\* failed, simulated and exported record what the workers of this call did.
NewPool(args, procs) ==
    LET chunksize == ChunkSize(Len(args), procs)
    IN [state |-> "running",
        chunks |-> GetTasks(args, chunksize),
        next |-> 1,
        chunksize |-> chunksize,
        left |-> NumberLeft(Len(args), chunksize),
        success |-> TRUE,
        value |-> [k \in 1 .. Len(args) |-> None],
        failed |-> {},
        simulated |-> [k \in 1 .. Len(args) |-> 0],
        exported |-> [k \in 1 .. Len(args) |-> 0]]

\* parallelModel.simulate(n_steps=N_STEPS), up to the blocking starmap
ParSimulateCall ==
    /\ par.pc = "constructed"
    /\ pool' = NewPool(Args(par.models, cfg.n), cfg.P)
    /\ worker' = [w \in 1 .. cfg.P |-> IdleFrame]
    /\ par' = [par EXCEPT !.pc = "starmap"]
    /\ UNCHANGED <<cfg, faults, obj, rng, files, seq, unit, multi>>

\* a further parallelModel.simulate(n_steps=N_STEPS) on the same object
ParSimulateAgain ==
    /\ par.pc = "returned"
    /\ par.calls < MaxCalls
    /\ pool' = NewPool(Args(par.models, cfg.n), cfg.P)
    /\ worker' = [w \in 1 .. cfg.P |-> IdleFrame]
    /\ par' = [par EXCEPT !.pc = "starmap"]
    /\ UNCHANGED <<cfg, faults, obj, rng, files, seq, unit, multi>>

\* mutant: the call returns as soon as one chunk has reported
StarmapReady_FirstResult(p) == p.left < Len(p.chunks) \/ Len(p.chunks) = 0

\* MapResult: the result is ready once every chunk has reported
StarmapReady(p) == p.left = 0

\* mutant: the pool is left as it is when the with block is left
Terminated_Leak(ws) == ws

Terminated(ws) == [w \in DOMAIN ws |-> [ws[w] EXCEPT !.pc = "terminated"]]

\* starmap returns its list, which simulate drops; the with block terminates the pool
ParStarmapReturn ==
    /\ par.pc = "starmap"
    /\ StarmapReady(pool)
    /\ pool.success
    /\ par' = [par EXCEPT !.pc = "returned", !.calls = par.calls + 1,
                          !.rows = Append(@, [k \in 1 .. Len(par.models) |->
                              IF PathOf("ResultsParallel", ExportName(obj[par.models[k]]))
                                     \in DOMAIN files
                              THEN files[PathOf("ResultsParallel",
                                                ExportName(obj[par.models[k]]))]
                              ELSE <<>>])]
    /\ pool' = [pool EXCEPT !.state = "terminated"]
    /\ worker' = Terminated(worker)
    /\ UNCHANGED <<cfg, faults, obj, rng, files, seq, unit, multi>>

ParStarmapRaises ==
    /\ par.pc = "starmap"
    /\ StarmapReady(pool)
    /\ ~pool.success
    /\ par' = [par EXCEPT !.pc = "raised", !.error = pool.value,
                          !.calls = par.calls + 1]
    /\ pool' = [pool EXCEPT !.state = "terminated"]
    /\ worker' = Terminated(worker)
    /\ UNCHANGED <<cfg, faults, obj, rng, files, seq, unit, multi>>

----------------------------------------------------------------------------
(* The pool's worker processes running simulate_this_model *)

Snapshot(m) == [seed |-> obj[m].seed, sum |-> obj[m].sum, state |-> rng[obj[m].rng]]

\* worker: task = get(); the chunk is unpickled into this process
WorkerGet(w) ==
    /\ worker[w].pc = "idle"
    /\ pool.state = "running"
    /\ pool.next <= Len(pool.chunks)
    /\ LET c == pool.next
           chunk == pool.chunks[c]
           T == 1 .. Len(chunk)
           ids == {WkId(chunk[t].model.id) : t \in T}
           keys == {Unpickled(c, chunk[t]).rng : t \in T}
           taskOf(x) == CHOOSE t \in T : WkId(chunk[t].model.id) = x
           taskOfKey(x) == CHOOSE t \in T : Unpickled(c, chunk[t]).rng = x
       IN /\ obj' = [x \in (DOMAIN obj) \cup ids |->
                        IF x \in ids THEN Unpickled(c, chunk[taskOf(x)]) ELSE obj[x]]
          /\ rng' = [x \in (DOMAIN rng) \cup keys |->
                        IF x \in keys THEN chunk[taskOfKey(x)].model.state ELSE rng[x]]
          /\ worker' = [worker EXCEPT ![w] =
                           [IdleFrame EXCEPT !.pc = "simulate", !.chunk = c, !.pos = 1,
                                             !.self = WkId(chunk[1].model.id),
                                             !.n_steps = chunk[1].n_steps]]
          /\ pool' = [pool EXCEPT !.next = c + 1]
    /\ UNCHANGED <<cfg, faults, files, seq, par, unit, multi>>

WorkerSimulateBegin(w) ==
    /\ worker[w].pc = "simulate"
    /\ obj' = [obj EXCEPT ![worker[w].self] = SimulateBegin(@)]
    /\ worker' = [worker EXCEPT ![w].pc = "range", ![w].i = 0]
    /\ pool' = [pool EXCEPT !.simulated[worker[w].self[2] + 1] = @ + 1]
    /\ UNCHANGED <<cfg, faults, rng, files, seq, par, unit, multi>>

WorkerDrawUniform(w) ==
    /\ worker[w].pc = "range"
    /\ LoopContinues(worker[w].i, worker[w].n_steps)
    /\ rng' = [rng EXCEPT ![obj[worker[w].self].rng] = RngAdvance(@)]
    /\ worker' = [worker EXCEPT ![w].pc = "beta",
                                ![w].u = UniformOf(rng'[obj[worker[w].self].rng])]
    /\ UNCHANGED <<cfg, faults, obj, files, seq, par, pool, unit, multi>>

WorkerDrawBeta(w) ==
    /\ worker[w].pc = "beta"
    /\ rng' = [rng EXCEPT ![obj[worker[w].self].rng] = RngAdvance(@)]
    /\ obj' = [obj EXCEPT ![worker[w].self] =
                  AddVariates(@, worker[w].u, BetaOf(rng'[obj[worker[w].self].rng]))]
    /\ worker' = [worker EXCEPT ![w].pc = "range", ![w].i = worker[w].i + 1]
    /\ UNCHANGED <<cfg, faults, files, seq, par, pool, unit, multi>>

WorkerSimulateEnd(w) ==
    /\ worker[w].pc = "range"
    /\ ~LoopContinues(worker[w].i, worker[w].n_steps)
    /\ worker' = [worker EXCEPT ![w].pc = "export"]
    /\ UNCHANGED <<cfg, faults, obj, rng, files, seq, par, pool, unit, multi>>

\* model.export_results(directory='ResultsParallel'); return model
WorkerExport(w) ==
    /\ worker[w].pc = "export"
    /\ files' = Write_csv(files, ExportRows(obj[worker[w].self]),
                          ExportName(obj[worker[w].self]), "ResultsParallel")
    /\ LET f == worker[w]
           chunk == pool.chunks[f.chunk]
           out == Append(f.out, Snapshot(f.self))
       IN worker' = [worker EXCEPT ![w] =
              IF f.pos < Len(chunk)
              THEN [f EXCEPT !.pc = "simulate", !.pos = f.pos + 1, !.out = out,
                             !.self = WkId(chunk[f.pos + 1].model.id),
                             !.n_steps = chunk[f.pos + 1].n_steps]
              ELSE [f EXCEPT !.pc = "put", !.out = out]]
    /\ pool' = [pool EXCEPT !.exported[worker[w].self[2] + 1] = @ + 1]
    /\ UNCHANGED <<cfg, faults, obj, rng, seq, par, unit, multi>>

\* IO.write_csv raises: starmapstar stops at this task, the rest of the chunk is not run
\* The exception carries the file's path or none (""), as the failing system
\* call decides.
WorkerExportFails(w) ==
    /\ worker[w].pc = "export"
    /\ faults < MaxFaults
    /\ faults' = faults + 1
    /\ \E named \in BOOLEAN :
          worker' = [worker EXCEPT ![w].pc = "put", ![w].ok = FALSE,
                       ![w].exc = [error |-> "IOFailure",
                                   path |-> IF named
                                            THEN PathOf("ResultsParallel",
                                                        ExportName(obj[worker[w].self]))
                                            ELSE ""]]
    /\ pool' = [pool EXCEPT !.failed = @ \cup {obj[worker[w].self].seed}]
    /\ UNCHANGED <<cfg, obj, rng, files, seq, par, unit, multi>>

\* worker: put((job, i, result)), and MapResult._set in the driver's process
WorkerPut(w) ==
    /\ worker[w].pc = "put"
    /\ LET f == worker[w]
           lo == (f.chunk - 1) * pool.chunksize
       IN pool' = [pool EXCEPT
              !.left = pool.left - 1,
              !.success = pool.success /\ f.ok,
              !.value = IF f.ok /\ pool.success
                        THEN [k \in DOMAIN pool.value |->
                                 IF k > lo /\ k <= lo + Len(f.out)
                                 THEN f.out[k - lo] ELSE pool.value[k]]
                        ELSE IF ~f.ok /\ pool.success THEN f.exc ELSE pool.value]
    /\ worker' = [worker EXCEPT ![w] = IdleFrame]
    /\ UNCHANGED <<cfg, faults, obj, rng, files, seq, par, unit, multi>>

----------------------------------------------------------------------------
(* PyUsingSimPy.SimClasses2.OneSim *)

OneSim2_init(self, seed) ==
    [num |-> seed, sum |-> 0, rng |-> NewRNG(self), obs |-> <<>>]

\* simulate starts its loop on the sum left by the previous call
Simulate2Begin(m) == m

\* self.obs.append(self.sum)
Simulate2End(m) == [m EXCEPT !.obs = Append(@, m.sum)]

----------------------------------------------------------------------------
(* A single-threaded client of OneSim objects: object "a" of either class  *)
(* is constructed once and its methods called in any order; a second       *)
(* object "b" is constructed independently and simulated once.             *)

Classes == {"SimClasses", "SimClasses2"}

Objects == {"a", "b"}

UnitId(o) == <<"unit", o>>

NewFrame ==
    [pc |-> "new", cls |-> "", calls |-> 0, n_steps |-> 0, i |-> 0, u |-> 0,
     before |-> 0, drawn |-> <<>>, first |-> None]

UnitInit == unit = [o \in Objects |-> NewFrame]

UnitIdle == \A o \in Objects : unit[o].pc \in {"new", "ready"}

UnitConstruct(o, cls, seed) ==
    /\ unit[o].pc = "new"
    /\ UnitIdle
    /\ obj' = Put(obj, UnitId(o),
                  IF cls = "SimClasses" THEN OneSim_init(UnitId(o), seed)
                                        ELSE OneSim2_init(UnitId(o), seed))
    /\ rng' = Put(rng, obj'[UnitId(o)].rng, RngSeeded(seed))
    /\ unit' = [unit EXCEPT ![o].pc = "ready", ![o].cls = cls]
    /\ UNCHANGED <<cfg, files, faults, seq, par, pool, worker, multi>>

UnitSimulateBegin(o, n_steps) ==
    /\ unit[o].pc = "ready"
    /\ UnitIdle
    /\ unit[o].calls < (IF o = "a" THEN MaxCalls ELSE 1)
    /\ obj' = [obj EXCEPT ![UnitId(o)] =
                  IF unit[o].cls = "SimClasses" THEN SimulateBegin(@)
                                                ELSE Simulate2Begin(@)]
    /\ unit' = [unit EXCEPT ![o].pc = "range", ![o].n_steps = n_steps, ![o].i = 0,
                            ![o].before = rng[obj[UnitId(o)].rng],
                            ![o].drawn = <<>>]
    /\ UNCHANGED <<cfg, rng, files, faults, seq, par, pool, worker, multi>>

UnitDrawUniform(o) ==
    /\ unit[o].pc = "range"
    /\ LoopContinues(unit[o].i, unit[o].n_steps)
    /\ rng' = [rng EXCEPT ![obj[UnitId(o)].rng] = RngAdvance(@)]
    /\ unit' = [unit EXCEPT ![o].pc = "beta",
                            ![o].u = UniformOf(rng'[obj[UnitId(o)].rng]),
                            ![o].drawn = Append(@, UniformOf(rng'[obj[UnitId(o)].rng]))]
    /\ UNCHANGED <<cfg, obj, files, faults, seq, par, pool, worker, multi>>

UnitDrawBeta(o) ==
    /\ unit[o].pc = "beta"
    /\ rng' = [rng EXCEPT ![obj[UnitId(o)].rng] = RngAdvance(@)]
    /\ obj' = [obj EXCEPT ![UnitId(o)] =
                  AddVariates(@, unit[o].u, BetaOf(rng'[obj[UnitId(o)].rng]))]
    /\ unit' = [unit EXCEPT ![o].pc = "range", ![o].i = unit[o].i + 1,
                            ![o].drawn = Append(@, BetaOf(rng'[obj[UnitId(o)].rng]))]
    /\ UNCHANGED <<cfg, files, faults, seq, par, pool, worker, multi>>

UnitSimulateEnd(o) ==
    /\ unit[o].pc = "range"
    /\ ~LoopContinues(unit[o].i, unit[o].n_steps)
    /\ obj' = [obj EXCEPT ![UnitId(o)] =
                  IF unit[o].cls = "SimClasses" THEN @ ELSE Simulate2End(@)]
    /\ unit' = [unit EXCEPT
                  ![o].pc = "ready",
                  ![o].calls = unit[o].calls + 1,
                  ![o].first = IF unit[o].calls = 0
                               THEN [n_steps |-> unit[o].n_steps,
                                     sum |-> obj[UnitId(o)].sum,
                                     drawn |-> unit[o].drawn]
                               ELSE @]
    /\ UNCHANGED <<cfg, rng, files, faults, seq, par, pool, worker, multi>>

UnitExport(o, directory) ==
    /\ unit[o].pc = "ready"
    /\ UnitIdle
    /\ unit[o].cls = "SimClasses"
    /\ files' = Write_csv(files, ExportRows(obj[UnitId(o)]),
                          ExportName(obj[UnitId(o)]), directory)
    /\ UNCHANGED <<cfg, obj, rng, faults, seq, par, pool, worker, unit, multi>>

----------------------------------------------------------------------------
(* PyUsingSimPy.SimClasses2.MultiSim and a client that constructs one      *)
(* MultiSim and calls its methods                                          *)

MId(call, i) == <<"multi", call, i>>

\* Stat.SummaryStat(name='', data=self.obs).get_mean(), in quarter units
Mean(data) == SeqSum(data) \div Len(data)

MultiOff ==
    [pc |-> "off", obs |-> <<>>, calls |-> 0, n_steps |-> 0, n_iterations |-> 0,
     i |-> 0, j |-> 0, u |-> 0, sim |-> None, base |-> 0, mean |-> None]

\* MultiSim()
MultiConstruct ==
    /\ multi.pc = "new"
    /\ multi' = [multi EXCEPT !.pc = "ready", !.obs = <<>>]
    /\ UNCHANGED <<cfg, obj, rng, files, faults, seq, par, pool, worker, unit>>

MultiSimulateCall(n_steps, n_iterations) ==
    /\ multi.pc = "ready"
    /\ multi.calls < MaxCalls
    /\ multi' = [multi EXCEPT !.pc = "for", !.n_steps = n_steps,
                              !.n_iterations = n_iterations, !.i = 0,
                              !.base = Len(multi.obs)]
    /\ UNCHANGED <<cfg, obj, rng, files, faults, seq, par, pool, worker, unit>>

\* sim = OneSim(seed=i), and the entry of sim.simulate(n_steps=n_steps)
MultiNewSim ==
    /\ multi.pc = "for"
    /\ multi.i \in Range(multi.n_iterations)
    /\ LET id == MId(multi.calls, multi.i)
       IN /\ obj' = Put(obj, id, Simulate2Begin(OneSim2_init(id, multi.i)))
          /\ rng' = Put(rng, obj'[id].rng, RngSeeded(multi.i))
          /\ multi' = [multi EXCEPT !.pc = "range", !.sim = id, !.j = 0]
    /\ UNCHANGED <<cfg, files, faults, seq, par, pool, worker, unit>>

MultiDrawUniform ==
    /\ multi.pc = "range"
    /\ LoopContinues(multi.j, multi.n_steps)
    /\ rng' = [rng EXCEPT ![obj[multi.sim].rng] = RngAdvance(@)]
    /\ multi' = [multi EXCEPT !.pc = "beta", !.u = UniformOf(rng'[obj[multi.sim].rng])]
    /\ UNCHANGED <<cfg, obj, files, faults, seq, par, pool, worker, unit>>

MultiDrawBeta ==
    /\ multi.pc = "beta"
    /\ rng' = [rng EXCEPT ![obj[multi.sim].rng] = RngAdvance(@)]
    /\ obj' = [obj EXCEPT ![multi.sim] =
                  AddVariates(@, multi.u, BetaOf(rng'[obj[multi.sim].rng]))]
    /\ multi' = [multi EXCEPT !.pc = "range", !.j = multi.j + 1]
    /\ UNCHANGED <<cfg, files, faults, seq, par, pool, worker, unit>>

MultiSimulateEnd ==
    /\ multi.pc = "range"
    /\ ~LoopContinues(multi.j, multi.n_steps)
    /\ obj' = [obj EXCEPT ![multi.sim] = Simulate2End(@)]
    /\ multi' = [multi EXCEPT !.pc = "append"]
    /\ UNCHANGED <<cfg, rng, files, faults, seq, par, pool, worker, unit>>

\* mutant: the loop steps over every second iteration
NextIteration_Skip(i) == i + 2

\* for i in range(n_iterations)
NextIteration(i) == i + 1

\* self.obs.append(sim.sum)
MultiAppend ==
    /\ multi.pc = "append"
    /\ multi' = [multi EXCEPT !.pc = "for", !.i = NextIteration(multi.i),
                              !.obs = Append(@, obj[multi.sim].sum)]
    /\ UNCHANGED <<cfg, obj, rng, files, faults, seq, par, pool, worker, unit>>

\* stat = Stat.SummaryStat(name='', data=self.obs); print(stat.get_mean())
MultiStat ==
    /\ multi.pc = "for"
    /\ multi.i \notin Range(multi.n_iterations)
    /\ multi.obs # <<>>
    /\ multi' = [multi EXCEPT !.pc = "ready", !.calls = multi.calls + 1,
                              !.mean = Mean(multi.obs)]
    /\ UNCHANGED <<cfg, obj, rng, files, faults, seq, par, pool, worker, unit>>

\* the summary of no observation is an error
MultiStatFails ==
    /\ multi.pc = "for"
    /\ multi.i \notin Range(multi.n_iterations)
    /\ multi.obs = <<>>
    /\ multi' = [multi EXCEPT !.pc = "raised", !.mean = [error |-> "EmptyInputError"]]
    /\ UNCHANGED <<cfg, obj, rng, files, faults, seq, par, pool, worker, unit>>

MultiExportRows(obs) == [k \in 1 .. Len(obs) |-> <<obs[k]>>]

\* MultiSim.export_results()
MultiExport ==
    /\ multi.pc = "ready"
    /\ files' = Write_csv(files, MultiExportRows(multi.obs), "results.csv", "Results")
    /\ UNCHANGED <<cfg, obj, rng, faults, seq, par, pool, worker, unit, multi>>

----------------------------------------------------------------------------
(* Specification: RunSimSequential.py and then RunSimParallel.py, run one  *)
(* after the other on the same inputs and the same file system.  The two   *)
(* programs share no object and write to different directories.            *)

Init ==
    /\ cfg \in [N : (-1) .. MaxRuns, n : (-1) .. MaxSteps, P : 1 .. MaxProcs]
    /\ cfg.P > 1 => cfg.N <= MaxPoolRuns
    /\ obj = Empty
    /\ rng = Empty
    /\ files = Empty
    /\ faults = 0
    /\ SeqInit
    /\ ParInit
    /\ unit = None
    /\ multi = None

Next ==
    \/ SeqConstruct
    \/ SeqSimulateBegin
    \/ SeqDrawUniform
    \/ SeqDrawBeta
    \/ SeqSimulateEnd
    \/ SeqExport
    \/ SeqExportFails
    \/ SeqDone
    \/ ParConstruct
    \/ ParSimulateCall
    \/ ParStarmapReturn
    \/ ParStarmapRaises
    \/ \E w \in DOMAIN worker : WorkerGet(w)
    \/ \E w \in DOMAIN worker : WorkerSimulateBegin(w)
    \/ \E w \in DOMAIN worker : WorkerDrawUniform(w)
    \/ \E w \in DOMAIN worker : WorkerDrawBeta(w)
    \/ \E w \in DOMAIN worker : WorkerSimulateEnd(w)
    \/ \E w \in DOMAIN worker : WorkerExport(w)
    \/ \E w \in DOMAIN worker : WorkerExportFails(w)
    \/ \E w \in DOMAIN worker : WorkerPut(w)

Spec == Init /\ [][Next]_vars

----------------------------------------------------------------------------
(* Specification: OneSim objects of both classes under sequences of method *)
(* calls.                                                                   *)

InitOneSim ==
    /\ cfg = None
    /\ obj = Empty
    /\ rng = Empty
    /\ files = Empty
    /\ faults = 0
    /\ seq = None
    /\ par = None
    /\ pool = None
    /\ worker = <<>>
    /\ UnitInit
    /\ multi = None

NextOneSim ==
    \/ \E o \in Objects, cls \in Classes, seed \in 0 .. MaxSeed : UnitConstruct(o, cls, seed)
    \/ \E o \in Objects, n_steps \in 0 .. MaxSteps : UnitSimulateBegin(o, n_steps)
    \/ \E o \in Objects : UnitDrawUniform(o)
    \/ \E o \in Objects : UnitDrawBeta(o)
    \/ \E o \in Objects : UnitSimulateEnd(o)
    \/ \E o \in Objects, d \in {"ResultsSequential", "ResultsParallel"} : UnitExport(o, d)

SpecOneSim == InitOneSim /\ [][NextOneSim]_vars

----------------------------------------------------------------------------
(* Specification: sequential execution.  One program runs, chosen at the   *)
(* start: RunSimSequential.py, or a client of SimClasses2.MultiSim.        *)

InitSeq ==
    /\ cfg \in [N : (-1) .. MaxRuns, n : (-1) .. MaxSteps, P : {1},
                prog : {"RunSimSequential", "MultiSim"}]
    /\ cfg.prog = "MultiSim" => cfg.N = 0 /\ cfg.n = 0
    /\ obj = Empty
    /\ rng = Empty
    /\ files = Empty
    /\ faults = 0
    /\ IF cfg.prog = "RunSimSequential"
       THEN SeqInit /\ multi = MultiOff
       ELSE /\ seq = [pc |-> "off", seed |-> 0, model |-> None, i |-> 0, u |-> 0]
            /\ multi = [MultiOff EXCEPT !.pc = "new"]
    /\ par = None
    /\ pool = None
    /\ worker = <<>>
    /\ unit = None

NextSeq ==
    \/ SeqConstruct
    \/ SeqSimulateBegin
    \/ SeqDrawUniform
    \/ SeqDrawBeta
    \/ SeqSimulateEnd
    \/ SeqExport
    \/ SeqExportFails
    \/ SeqDone
    \/ MultiConstruct
    \/ \E n_steps \in (-1) .. MaxSteps, n_iterations \in (-1) .. MaxPoolRuns :
          MultiSimulateCall(n_steps, n_iterations)
    \/ MultiNewSim
    \/ MultiDrawUniform
    \/ MultiDrawBeta
    \/ MultiSimulateEnd
    \/ MultiAppend
    \/ MultiStat
    \/ MultiStatFails
    \/ MultiExport

SpecSeq == InitSeq /\ [][NextSeq]_vars

----------------------------------------------------------------------------
(* Specification: a client that constructs one ParallelMultiSim and calls  *)
(* simulate on it up to MaxCalls times, as RunSimParallel.py does once.    *)

InitTwice ==
    /\ cfg \in [N : (-1) .. MaxPoolRuns, n : (-1) .. MaxSteps, P : 1 .. MaxProcs]
    /\ obj = Empty
    /\ rng = Empty
    /\ files = Empty
    /\ faults = 0
    /\ seq = [pc |-> "off", seed |-> 0, model |-> None, i |-> 0, u |-> 0]
    /\ ParInit
    /\ unit = None
    /\ multi = None

NextTwice ==
    \/ ParConstruct
    \/ ParSimulateCall
    \/ ParSimulateAgain
    \/ ParStarmapReturn
    \/ ParStarmapRaises
    \/ \E w \in DOMAIN worker : WorkerGet(w)
    \/ \E w \in DOMAIN worker : WorkerSimulateBegin(w)
    \/ \E w \in DOMAIN worker : WorkerDrawUniform(w)
    \/ \E w \in DOMAIN worker : WorkerDrawBeta(w)
    \/ \E w \in DOMAIN worker : WorkerSimulateEnd(w)
    \/ \E w \in DOMAIN worker : WorkerExport(w)
    \/ \E w \in DOMAIN worker : WorkerExportFails(w)
    \/ \E w \in DOMAIN worker : WorkerPut(w)

SpecTwice == InitTwice /\ [][NextTwice]_vars

----------------------------------------------------------------------------
(* Claims about the parallel run, checked under Spec *)

SeqPath(k) == PathOf("ResultsSequential", "Seed " \o Str(k) \o ".csv")

ParPath(k) == PathOf("ResultsParallel", "Seed " \o Str(k) \o ".csv")

Seeds == Range(cfg.N)

\* the stream state and the sum of object `id', if the object exists
StreamOf(id) == IF id \in DOMAIN obj THEN rng[obj[id].rng] ELSE None

SumOf(id) == IF id \in DOMAIN obj THEN obj[id].sum ELSE None

\* worker w is inside model.simulate of the copy of seed j
Simulating(w, j) ==
    /\ worker[w].pc \in {"simulate", "range", "beta"}
    /\ worker[w].self = WkId(DrvId(j))

\* C1: a step of the worker simulating seed j (the reset of sum, a variate
\* draw, the addition to sum) leaves the stream state and the sum of every
\* other seed's replication unchanged, in the workers and in the driver.
C1_NoSharedState ==
    [][\A w \in DOMAIN worker : \A j \in Seeds : \A k \in Seeds \ {j} :
          (Simulating(w, j) /\ worker'[w] # worker[w]) =>
              /\ StreamOf(WkId(DrvId(k)))' = StreamOf(WkId(DrvId(k)))
              /\ SumOf(WkId(DrvId(k)))' = SumOf(WkId(DrvId(k)))
              /\ StreamOf(DrvId(k))' = StreamOf(DrvId(k))
              /\ SumOf(DrvId(k))' = SumOf(DrvId(k))]_vars

\* two workers are in the middle of the accumulation loops of two seeds
C1_Witness ==
    \E w1, w2 \in DOMAIN worker :
        /\ w1 # w2
        /\ worker[w1].pc = "beta" /\ worker[w1].i >= 1
        /\ worker[w2].pc = "beta" /\ worker[w2].i >= 1
        /\ StreamOf(worker[w1].self) # StreamOf(worker[w2].self)

\* C2: for every seed k, the row the parallel run exports and the model it
\* returns carry the same outcome as the row the sequential driver exports.
C2_ParallelEqualsSequential ==
    \A k \in Seeds :
        SeqPath(k) \in DOMAIN files =>
            /\ ParPath(k) \in DOMAIN files => files[ParPath(k)] = files[SeqPath(k)]
            /\ (pool.success /\ k + 1 \in DOMAIN pool.value /\ pool.value[k + 1] # None)
                  => /\ pool.value[k + 1].seed = k
                     /\ pool.value[k + 1].sum = files[SeqPath(k)][1][2]

C2_Witness ==
    /\ seq.pc = "done"
    /\ par.pc = "returned"
    /\ cfg.N >= 3 /\ cfg.n >= 2 /\ cfg.P >= 2
    /\ \A k \in Seeds : SeqPath(k) \in DOMAIN files /\ ParPath(k) \in DOMAIN files
    /\ \E j, k \in Seeds : files[ParPath(j)][1][2] # files[ParPath(k)][1][2]

\* C3 as stated: after a normal return, models[k] of the driver carries the
\* final accumulated value of seed k (the value in seed k's result file).
C3_ResultsWrittenBack ==
    par.pc = "returned" =>
        \A k \in Seeds :
            /\ obj[par.models[k + 1]].seed = k
            /\ ParPath(k) \in DOMAIN files
            /\ obj[par.models[k + 1]].sum = files[ParPath(k)][1][2]

\* C7: with n_steps = 0 no replication draws a variate or fails: every sum
\* stays 0, every generator stays at its seeded state, and the N outcomes
\* exported and returned are all 0.
C7_ZeroSteps ==
    cfg.n = 0 =>
        /\ \A id \in DOMAIN obj :
              obj[id].sum = 0 /\ rng[obj[id].rng] = RngSeeded(obj[id].seed)
        /\ seq.pc # "beta" /\ \A w \in DOMAIN worker : worker[w].pc # "beta"
        /\ (seq.pc = "raised" \/ par.pc = "raised") => faults > 0
        /\ seq.pc = "done" =>
              \A k \in Seeds : SeqPath(k) \in DOMAIN files
                               /\ files[SeqPath(k)] = << <<k, 0>> >>
        /\ par.pc = "returned" =>
              \A k \in Seeds : /\ ParPath(k) \in DOMAIN files
                               /\ files[ParPath(k)] = << <<k, 0>> >>
                               /\ pool.value[k + 1].sum = 0

C7_Witness ==
    /\ cfg.n = 0 /\ cfg.N >= 3
    /\ seq.pc = "done"
    /\ par.pc = "returned"
    /\ Cardinality(DOMAIN files) = 2 * cfg.N

----------------------------------------------------------------------------
(* Claims about single OneSim objects, checked under SpecOneSim *)

\* object o has completed exactly `c' calls of simulate and is between calls
Completed(o, c) == unit[o].pc = "ready" /\ unit[o].calls = c

\* C4: two independently constructed SimClasses.OneSim objects with the same
\* seed that have each run simulate once, with the same n_steps, have drawn
\* the same variates and hold the same sum.
C4_Deterministic ==
    \A x, y \in Objects :
        ( /\ Completed(x, 1) /\ Completed(y, 1)
          /\ unit[x].cls = "SimClasses" /\ unit[y].cls = "SimClasses"
          /\ obj[UnitId(x)].seed = obj[UnitId(y)].seed
          /\ unit[x].n_steps = unit[y].n_steps )
        => /\ obj[UnitId(x)].sum = obj[UnitId(y)].sum
           /\ unit[x].drawn = unit[y].drawn

C4_Witness ==
    /\ Completed("a", 1) /\ Completed("b", 1)
    /\ unit["a"].cls = "SimClasses" /\ unit["b"].cls = "SimClasses"
    /\ obj[UnitId("a")].seed = 1 /\ obj[UnitId("b")].seed = 1
    /\ unit["a"].n_steps = MaxSteps /\ unit["b"].n_steps = MaxSteps
    /\ obj[UnitId("a")].sum > 0

\* C5 as stated: a second simulate(n) on the same SimClasses.OneSim object
\* draws the same variates and yields the same sum as the first simulate(n).
C5_RepeatReproduces ==
    \A o \in Objects :
        ( /\ Completed(o, 2)
          /\ unit[o].cls = "SimClasses"
          /\ unit[o].n_steps = unit[o].first.n_steps )
        => /\ unit[o].drawn = unit[o].first.drawn
           /\ obj[UnitId(o)].sum = unit[o].first.sum

\* C6 as stated: between calls, the sum of an object of either class is the
\* total of the variates drawn during its last simulate call.
C6_SumOfLastCall ==
    \A o \in Objects :
        (unit[o].pc = "ready" /\ unit[o].calls >= 1)
        => obj[UnitId(o)].sum = SeqSum(unit[o].drawn)

\* C8: an export of a SimClasses.OneSim object puts the single row
\* [seed, sum] under <directory>/Seed <seed>.csv and changes neither the
\* object nor any generator.
C8_ExportRow ==
    [][files' # files =>
          \E o \in Objects, d \in {"ResultsSequential", "ResultsParallel"} :
              /\ unit[o].cls = "SimClasses"
              /\ files' = Put(files,
                              d \o "/Seed " \o Str(obj[UnitId(o)].seed) \o ".csv",
                              << <<obj[UnitId(o)].seed, obj[UnitId(o)].sum>> >>)
              /\ obj' = obj
              /\ rng' = rng]_vars

\* a simulated object with seed 1 has been exported to both directories
C8_Witness ==
    /\ "ResultsSequential/Seed 1.csv" \in DOMAIN files
    /\ "ResultsParallel/Seed 1.csv" \in DOMAIN files
    /\ files["ResultsParallel/Seed 1.csv"][1][2] > 0
    /\ files["ResultsParallel/Seed 1.csv"] # files["ResultsSequential/Seed 1.csv"]

----------------------------------------------------------------------------
(* Claims about sequential execution, checked under SpecSeq *)

\* replication j of the sequential driver has finished: simulated and exported
SeqFinished(j) ==
    /\ SeqId(j) \in DOMAIN obj
    /\ SeqPath(j) \in DOMAIN files
    /\ files[SeqPath(j)] = << <<j, obj[SeqId(j)].sum>> >>
    /\ seq.model # SeqId(j) \/ seq.pc \in {"for", "done"}

\* replication j of call c of MultiSim.simulate has finished: simulated and
\* its sum appended to obs
MultiFinished(c, j) ==
    /\ MId(c, j) \in DOMAIN obj
    /\ obj[MId(c, j)].obs = <<obj[MId(c, j)].sum>>
    /\ Len(multi.obs) >= multi.base + j + 1
    /\ multi.obs[multi.base + j + 1] = obj[MId(c, j)].sum
    /\ multi.sim # MId(c, j) \/ multi.pc \in {"for", "ready", "raised"}

\* C9: in the sequential driver and in MultiSim.simulate, a replication exists
\* (has performed its first step, its construction) only if it is the current
\* one or an earlier one, and then every replication with a smaller seed has
\* finished.
C9_SeedOrder ==
    /\ \A k \in 0 .. MaxRuns + 1 :
          SeqId(k) \in DOMAIN obj =>
              /\ k <= seq.seed
              /\ seq.model = SeqId(seq.seed) \/ seq.pc \in {"for", "done"}
              /\ \A j \in 0 .. (k - 1) : SeqFinished(j)
    /\ \A k \in 0 .. MaxPoolRuns + 1 :
          MId(multi.calls, k) \in DOMAIN obj =>
              /\ k <= multi.i
              /\ multi.sim = MId(multi.calls, multi.i) \/ multi.pc \in {"for", "ready", "raised"}
              /\ \A j \in 0 .. (k - 1) : MultiFinished(multi.calls, j)

\* the driver is in the accumulation loop of its third replication
C9_Witness ==
    /\ seq.pc = "beta"
    /\ seq.seed = 2
    /\ seq.i >= 1

----------------------------------------------------------------------------
(* Claims about the end of the parallel run, checked under Spec *)

\* C10: when ParallelMultiSim.simulate has returned normally, every seed's
\* replication has been simulated and exported: its result file holds the
\* row of its final sum, and no worker is still inside a task.
C10_ReturnAfterAll ==
    par.pc = "returned" =>
        /\ \A k \in Seeds :
              /\ ParPath(k) \in DOMAIN files
              /\ WkId(DrvId(k)) \in DOMAIN obj
              /\ files[ParPath(k)] = << <<k, obj[WkId(DrvId(k))].sum>> >>
        /\ pool.next > Len(pool.chunks)
        /\ pool.left = 0

C10_Witness ==
    /\ par.pc = "returned"
    /\ cfg.N >= 3 /\ cfg.P >= 2 /\ cfg.n >= 1

-----------------------------------------------------------------------------
\* Failures inside the pool.

\* the call of ParallelMultiSim.simulate is over, one way or the other
ParOver == par.pc \in {"returned", "raised"}

\* C11: when the export of one seed fails in its worker, every other seed of
\* the call is still simulated to the end and its result file is written: at
\* the end of the call each seed that did not fail itself has run once and
\* has its file in ResultsParallel.
C11_OtherSeedsComplete ==
    ParOver =>
        \A k \in Seeds \ pool.failed :
            /\ pool.simulated[k + 1] = 1
            /\ ParPath(k) \in DOMAIN files

\* C12: a failure in a worker does not leave simulate waiting for ever, and
\* the call then ends with an error that names a seed that failed, never with
\* a normal return: while the driver waits in starmap some step can be taken,
\* and once the call is over after a failure it has raised an error carrying
\* the path of a failed seed's file.
C12_FailureSurfaces ==
    /\ (par.pc = "starmap" /\ pool.failed # {}) => ENABLED Next
    /\ (ParOver /\ pool.failed # {}) =>
           /\ par.pc = "raised"
           /\ \E k \in pool.failed : par.error.path = ParPath(k)

-----------------------------------------------------------------------------
\* Configuration.

\* C13: an invalid configuration is rejected before anything runs: with
\* num_simulations <= 0 the construction of ParallelMultiSim does not
\* complete, with n_steps < 0 simulate starts no pool, runs no replication
\* and writes no file, and either way the only way on is a
\* ConfigurationError.
C13_InvalidConfigRejected ==
    /\ cfg.N <= 0 => par.pc \in {"main", "raised"}
    /\ cfg.n < 0 =>
          /\ par.pc \in {"main", "constructed", "raised"}
          /\ pool.state = "none"
          /\ \A k \in Seeds : ParPath(k) \notin DOMAIN files
    /\ ((cfg.N <= 0 \/ cfg.n < 0) /\ par.pc = "raised") =>
          par.error.error = "ConfigurationError"

-----------------------------------------------------------------------------
\* MultiSim.obs.

\* C14: after every completed call of MultiSim.simulate(n_steps,
\* n_iterations), a second call on the same object included, obs has exactly
\* n_iterations entries and entry k is the outcome of the replication with
\* seed k of that call, so that export_results writes one row per
\* replication of the call, in seed order.
C14_ObsPerRun ==
    (multi.pc = "ready" /\ multi.calls >= 1 /\ multi.n_iterations >= 0) =>
        /\ Len(multi.obs) = multi.n_iterations
        /\ \A k \in Range(multi.n_iterations) :
               multi.obs[k + 1] = obj[MId(multi.calls - 1, k)].sum
        /\ MultiExportRows(multi.obs) =
               [k \in 1 .. multi.n_iterations |->
                   <<obj[MId(multi.calls - 1, k - 1)].sum>>]

-----------------------------------------------------------------------------
\* Dispatch.

\* worker w is executing simulate_this_model on some replication
Busy(w) == worker[w].pc \in {"simulate", "range", "beta", "export"}

\* the places <<chunk, position>> of the task list that hold seed k
Dispatched(k) ==
    {cp \in (1 .. Len(pool.chunks)) \X (1 .. pool.chunksize) :
        /\ cp[2] <= Len(pool.chunks[cp[1]])
        /\ pool.chunks[cp[1]][cp[2]].model.fields.seed = k}

\* C15: within one call of ParallelMultiSim.simulate every seed is in the
\* task list exactly once, no seed is simulated or exported more than once,
\* two workers never execute the same seed at the same time, and when the
\* call is over no seed has been skipped: each was simulated once and, unless
\* its own export failed, exported once.
C15_ExactlyOnce ==
    pool.state # "none" =>
        /\ \A k \in Seeds :
              /\ Cardinality(Dispatched(k)) = 1
              /\ pool.simulated[k + 1] <= 1
              /\ pool.exported[k + 1] <= 1
        /\ \A v, w \in DOMAIN worker :
              (v # w /\ Busy(v) /\ Busy(w)) => worker[v].self # worker[w].self
        /\ ParOver =>
              \A k \in Seeds :
                  /\ pool.simulated[k + 1] = 1
                  /\ k \notin pool.failed => pool.exported[k + 1] = 1

-----------------------------------------------------------------------------
\* The accumulation loop.

\* the stream state after k draws from state st
RECURSIVE Draws(_, _)
Draws(st, k) == IF k <= 0 THEN st ELSE RngAdvance(Draws(st, k - 1))

\* C16: a finished SimClasses.OneSim.simulate(n), n >= 0, has performed
\* exactly n iterations; iteration i drew the uniform variate as draw 2i-1
\* and the Beta variate as draw 2i of the object's own stream, the stream
\* stands 2n draws after where it stood at the call, and sum is the total of
\* those 2n variates.
C16_LoopDraws ==
    \A o \in Objects :
        (unit[o].pc = "ready" /\ unit[o].cls = "SimClasses" /\ unit[o].calls >= 1) =>
            LET n == unit[o].n_steps
                d == unit[o].drawn
                m == obj[UnitId(o)]
            IN /\ unit[o].i = n
               /\ Len(d) = 2 * n
               /\ \A i \in 1 .. n :
                     /\ d[2 * i - 1] = UniformOf(Draws(unit[o].before, 2 * i - 1))
                     /\ d[2 * i] = BetaOf(Draws(unit[o].before, 2 * i))
               /\ m.rng = UnitId(o)
               /\ rng[m.rng] = Draws(unit[o].before, 2 * n)
               /\ m.sum = SeqSum(d)

C16_Witness ==
    /\ unit["a"].pc = "ready"
    /\ unit["a"].cls = "SimClasses"
    /\ unit["a"].calls = 2
    /\ unit["a"].n_steps = MaxSteps
    /\ Len(unit["a"].drawn) = 2 * MaxSteps
    /\ obj[UnitId("a")].sum > 0

-----------------------------------------------------------------------------
\* The pool's lifetime.

\* C17: the pool exists only inside a call of ParallelMultiSim.simulate:
\* before the call there is no pool and no worker, and once the call has
\* returned or raised the pool is terminated and every worker of it has
\* stopped, none is simulating a replication or exporting a file.
C17_PoolScoped ==
    /\ par.pc \in {"main", "constructed"} => (pool.state = "none" /\ worker = <<>>)
    /\ par.pc = "starmap" => pool.state = "running"
    /\ ParOver =>
          /\ pool.state = "terminated"
          /\ \A w \in DOMAIN worker : worker[w].pc = "terminated" /\ ~Busy(w)

C17_Witness ==
    /\ par.pc = "raised"
    /\ Len(worker) = MaxProcs
    /\ \A w \in DOMAIN worker : worker[w].pc = "terminated"
    /\ \E k \in Seeds : pool.exported[k + 1] = 1

-----------------------------------------------------------------------------
\* Failure in the sequential loop.

\* C18: when export_results raises for seed k in the loop of
\* RunSimSequential, the program ends there with the error: no replication
\* with a seed above k is constructed, simulated or exported, seed k has no
\* file, and the file of every seed below k still holds the row it was
\* written with.
C18_FailFast ==
    (cfg.prog = "RunSimSequential" /\ faults > 0) =>
        /\ seq.pc = "raised"
        /\ \A j \in Seeds :
              /\ j > seq.seed =>
                    (SeqId(j) \notin DOMAIN obj /\ SeqPath(j) \notin DOMAIN files)
              /\ j = seq.seed => SeqPath(j) \notin DOMAIN files
              /\ j < seq.seed =>
                    /\ SeqPath(j) \in DOMAIN files
                    /\ files[SeqPath(j)] = << <<j, obj[SeqId(j)].sum>> >>

C18_Witness ==
    /\ cfg.prog = "RunSimSequential"
    /\ seq.pc = "raised"
    /\ seq.seed >= 1
    /\ seq.seed + 1 \in Seeds
    /\ SeqPath(0) \in DOMAIN files
    /\ obj[SeqId(seq.seed)].sum > 0

-----------------------------------------------------------------------------
\* The driver's own models.

\* C19: the workers act on copies, so from construction on, through every
\* call of ParallelMultiSim.simulate, self.models holds N models, models[k]
\* has seed k, the sum 0 and the stream state it was constructed with; and
\* the calls of simulate that returned on one object all exported the same
\* row for every seed.
C19_DriverModelsUntouched ==
    /\ par.pc # "main" =>
          /\ Len(par.models) = Cardinality(Seeds)
          /\ \A k \in Seeds :
                /\ par.models[k + 1] = DrvId(k)
                /\ obj[DrvId(k)].seed = k
                /\ obj[DrvId(k)].sum = 0
                /\ rng[obj[DrvId(k)].rng] = RngSeeded(k)
    /\ \A a, b \in DOMAIN par.rows :
          /\ par.rows[a] = par.rows[b]
          /\ \A k \in Seeds : par.rows[a][k + 1] # <<>>

C19_Witness ==
    /\ par.pc = "returned"
    /\ par.calls = 2
    /\ cfg.N >= 2
    /\ cfg.n >= 1
    /\ par.rows[2][2][1][2] > 0
    /\ obj[DrvId(1)].sum = 0

-----------------------------------------------------------------------------
\* Result files of the parallel run.

\* the sum of n iterations (one uniform and one Beta variate each) drawn from
\* stream state st on
RECURSIVE SumFrom(_, _)
SumFrom(st, n) ==
    IF n <= 0 THEN 0
    ELSE UniformOf(Draws(st, 1)) + BetaOf(Draws(st, 2)) + SumFrom(Draws(st, 2), n - 1)

\* the file worker w is about to write
Target(w) == PathOf("ResultsParallel", ExportName(obj[worker[w].self]))

\* C20: in a parallel run two workers that are exporting write to different
\* files, no seed's file is written more than once, a worker reaches its
\* export only with the accumulation loop finished, and the row in a seed's
\* file is that seed's complete sum, never a partial one.
C20_OneWriterPerFile ==
    pool.state # "none" =>
        /\ \A v, w \in DOMAIN worker :
              (v # w /\ worker[v].pc = "export" /\ worker[w].pc = "export") =>
                  Target(v) # Target(w)
        /\ \A w \in DOMAIN worker :
              worker[w].pc = "export" =>
                  /\ ~LoopContinues(worker[w].i, worker[w].n_steps)
                  /\ obj[worker[w].self].sum =
                         SumFrom(RngSeeded(obj[worker[w].self].seed), worker[w].n_steps)
        /\ \A k \in Seeds :
              /\ pool.exported[k + 1] <= 1
              /\ pool.exported[k + 1] = 1 =>
                    /\ ParPath(k) \in DOMAIN files
                    /\ files[ParPath(k)] = << <<k, SumFrom(RngSeeded(k), cfg.n)>> >>
              /\ pool.exported[k + 1] = 0 => ParPath(k) \notin DOMAIN files

C20_Witness ==
    /\ cfg.n = MaxSteps
    /\ \E v, w \in DOMAIN worker :
          /\ v # w
          /\ worker[v].pc = "export"
          /\ worker[w].pc = "export"
          /\ obj[worker[v].self].sum > 0
    /\ \E k \in Seeds : pool.exported[k + 1] = 1

=============================================================================
